---- MODULE Spec2Model ----
(***************************************************************************)
(* Model of the version-checker inventory compiler of cmctl                *)
(* (package main: main, Inventory.reset/read/write, listVersions,          *)
(* downloadManifests, cleanupManifests, manifestHash).                     *)
(*                                                                         *)
(* Byte strings are sequences of lexemes ("tokens"): the marker texts the  *)
(* code searches for, newlines, blanks, commas, version texts and the      *)
(* lexemes of the YAML documents.  Every byte operation of the code        *)
(* (SplitN, Split, TrimSpace, TrimPrefix, ReplaceAll, Join) is modelled on *)
(* these sequences.                                                        *)
(***************************************************************************)
EXTENDS Integers, Sequences, FiniteSets, TLC

----------------------------------------------------------------------------
(* Bounds of the model *)

\* number of compile runs (process invocations) in one behaviour
MaxRuns == 2

----------------------------------------------------------------------------
(* Version strings.  A version string is a record: its numbers and its     *)
(* written form: "full" vMAJOR.MINOR.PATCH, "short" vMAJOR.MINOR,          *)
(* "bad" a text that is no semantic version, "empty" the empty string.     *)

Ver(a, b, c) == [n |-> <<a, b, c>>, f |-> "full"]
ShortVer(a, b) == [n |-> <<a, b, 0>>, f |-> "short"]
BadVer == [n |-> <<0, 0, 0>>, f |-> "bad"]
EmptyStr == [n |-> <<0, 0, 0>>, f |-> "empty"]

\* semver.IsValid
IsValid(v) == v.f \in {"full", "short"}

\* semver.Canonical: vMAJOR.MINOR.PATCH of a valid version, "" otherwise
Canonical(v) == IF IsValid(v) THEN [n |-> v.n, f |-> "full"] ELSE EmptyStr

\* semver.Compare: an invalid version is below every valid one and equal to
\* every invalid one; valid versions compare by their numbers
Compare(v, w) ==
  IF ~IsValid(v) /\ ~IsValid(w) THEN 0
  ELSE IF ~IsValid(v) THEN -1
  ELSE IF ~IsValid(w) THEN 1
  ELSE IF v.n[1] # w.n[1] THEN (IF v.n[1] < w.n[1] THEN -1 ELSE 1)
  ELSE IF v.n[2] # w.n[2] THEN (IF v.n[2] < w.n[2] THEN -1 ELSE 1)
  ELSE IF v.n[3] # w.n[3] THEN (IF v.n[3] < w.n[3] THEN -1 ELSE 1)
  ELSE 0

minVersion == Ver(1, 0, 0)
dummyVersion == Ver(99, 99, 99)

----------------------------------------------------------------------------
(* Tokens and byte strings *)

Tok(t) == [t |-> t, v |-> EmptyStr]
VerTok(v) == [t |-> "ver", v |-> v]

NL == Tok("\n")
SP == Tok(" ")
COMMA == Tok(",")
SEP == Tok("---")
HdrLatest == Tok("# [CHK_LATEST_VERSION]: ")
HdrVersions == Tok("# [CHK_VERSIONS]: ")

\* []byte(s) of a version string s
StrBytes(v) == IF v.f = "empty" THEN <<>> ELSE <<VerTok(v)>>

\* the version string that a byte string spells; a text that is not one
\* version lexeme is no semantic version
BytesStr(b) == IF b = <<>> THEN EmptyStr
               ELSE IF Len(b) = 1 /\ b[1].t = "ver" THEN b[1].v
               ELSE BadVer

IsSpace(t) == t \in {NL, SP}

\* strings.TrimSpace: from the first to the last lexeme that is no white space
TrimSpace(b) ==
  LET I == {i \in 1..Len(b) : ~IsSpace(b[i])}
  IN IF I = {} THEN <<>>
     ELSE SubSeq(b, CHOOSE i \in I : \A j \in I : i <= j,
                    CHOOSE i \in I : \A j \in I : j <= i)

HasPrefix(b, p) == Len(b) >= Len(p) /\ SubSeq(b, 1, Len(p)) = p
HasSuffix(b, s) == Len(b) >= Len(s) /\ SubSeq(b, Len(b) - Len(s) + 1, Len(b)) = s

\* strings.TrimPrefix, bytes.TrimPrefix
TrimPrefix(b, p) == IF HasPrefix(b, p) THEN SubSeq(b, Len(p) + 1, Len(b)) ELSE b
\* bytes.TrimSuffix
TrimSuffix(b, s) == IF HasSuffix(b, s) THEN SubSeq(b, 1, Len(b) - Len(s)) ELSE b

\* bytes.Index: the first position at which sep occurs in b, 0 if none
IndexOf(b, sep) ==
  LET hits == {i \in 1..(Len(b) - Len(sep) + 1) : SubSeq(b, i, i + Len(sep) - 1) = sep}
  IN IF hits = {} THEN 0 ELSE CHOOSE i \in hits : \A j \in hits : i <= j

\* bytes.SplitN(b, sep, 2)
SplitN2(b, sep) ==
  LET i == IndexOf(b, sep)
  IN IF i = 0 THEN <<b>>
     ELSE <<SubSeq(b, 1, i - 1), SubSeq(b, i + Len(sep), Len(b))>>

\* the places at which sep occurs in b
Matches(b, sep) ==
  {i \in 1..(Len(b) - Len(sep) + 1) : SubSeq(b, i, i + Len(sep) - 1) = sep}

\* the k-th smallest element of a set of numbers
Kth(P, k) == CHOOSE p \in P : Cardinality({q \in P : q < p}) = k - 1

\* bytes.Split, strings.Split: the pieces between the occurrences of sep
\* (no separator the code splits at, "\n", "," and "---\n# [CHK_VERSIONS]: ",
\* can overlap another occurrence of itself, so every occurrence cuts)
Split(b, sep) ==
  LET P == Matches(b, sep)
      n == Cardinality(P)
  IN [k \in 1..(n + 1) |->
        SubSeq(b, IF k = 1 THEN 1 ELSE Kth(P, k - 1) + Len(sep),
                  IF k = n + 1 THEN Len(b) ELSE Kth(P, k) - 1)]

\* bytes.Join, strings.Join
RECURSIVE Join(_, _)
Join(parts, sep) ==
  IF parts = <<>> THEN <<>>
  ELSE IF Len(parts) = 1 THEN parts[1]
  ELSE parts[1] \o sep \o Join(Tail(parts), sep)

\* as ReplaceAll, but nothing is replaced
ReplaceAllNot(b, old, new) == b

\* bytes.ReplaceAll(b, []byte(old), []byte(new)) for version texts old, new
ReplaceAll(b, old, new) ==
  [i \in 1..Len(b) |-> IF b[i] = VerTok(old) THEN VerTok(new) ELSE b[i]]

----------------------------------------------------------------------------
(* hash/fnv New64 (FNV-1, 64 bit) on 4 limbs of 16 bits, lowest limb first *)

\* every lexeme other than a version text, in a fixed order: its place is
\* the byte the lexeme stands for in the hash
Lexemes == <<"\n", " ", ",", "---", "# [CHK_LATEST_VERSION]: ", "# [CHK_VERSIONS]: ",
             "#", "image: ", "kind: ", "spec: ", "status: ", "other: ",
             "CustomResourceDefinition", "Service", "Deployment", "ConfigMap",
             "{versions: [schema]}", "{versions: []}", "{}", "text", "5", "{ready}",
             "Not Found">>

LexCode(t) == CHOOSE i \in 1..Len(Lexemes) : Lexemes[i] = t

\* the bytes of one token
TokBytes(tok) ==
  IF tok.t = "ver"
  THEN (IF tok.v.f = "full" THEN <<118, tok.v.n[1], tok.v.n[2], tok.v.n[3]>>
        ELSE IF tok.v.f = "short" THEN <<118, tok.v.n[1], tok.v.n[2]>>
        ELSE <<63>>)
  ELSE <<LexCode(tok.t)>>

RECURSIVE RawBytes(_)
RawBytes(b) ==
  IF Len(b) = 0 THEN <<>>
  ELSE IF Len(b) = 1 THEN TokBytes(b[1])
  ELSE LET half == Len(b) \div 2
       IN RawBytes(SubSeq(b, 1, half)) \o RawBytes(SubSeq(b, half + 1, Len(b)))

\* offset64 = 0xcbf29ce484222325
FnvOffset64 == <<8997, 33826, 40164, 52210>>

\* bit k of a XOR bit k of b
XorBit(a, b, k) == (((a \div k) % 2) + ((b \div k) % 2)) % 2

\* a XOR b for bytes a, b
Xor8(a, b) ==
  XorBit(a, b, 1) + 2 * XorBit(a, b, 2) + 4 * XorBit(a, b, 4) + 8 * XorBit(a, b, 8)
  + 16 * XorBit(a, b, 16) + 32 * XorBit(a, b, 32) + 64 * XorBit(a, b, 64)
  + 128 * XorBit(a, b, 128)

\* h * prime64 (mod 2^64), prime64 = 0x100000001b3 = 2^40 + 0x1b3:
\* h * 0x1b3 limb by limb with carry, plus h shifted left by 40 bits
MulPrime64(h) ==
  LET p1 == h[1] * 435
      p2 == h[2] * 435 + (p1 \div 65536)
      p3 == h[3] * 435 + (p2 \div 65536) + (h[1] % 256) * 256
      p4 == h[4] * 435 + (p3 \div 65536) + (h[1] \div 256) + (h[2] % 256) * 256
  IN <<p1 % 65536, p2 % 65536, p3 % 65536, p4 % 65536>>

\* hash ^= c: the byte goes into the lowest 8 bits
XorByte(m, c) == <<(m[1] \div 256) * 256 + Xor8(m[1] % 256, c), m[2], m[3], m[4]>>

\* (*fnv.sum64).Write from byte i on: hash *= prime64 and hash ^= byte
RECURSIVE FnvWrite(_, _, _)
FnvWrite(h, bytes, i) ==
  IF i > Len(bytes) THEN h
  ELSE FnvWrite(XorByte(MulPrime64(h), bytes[i]), bytes, i + 1)

\* as manifestHash, but nothing is written to the hash
manifestHashOfNothing(manifests) == FnvOffset64

\* manifestHash: hex.EncodeToString(fnv.New64().Sum) of the manifest; the
\* limbs stand for the 16 hex digits
manifestHash(manifests) == FnvWrite(FnvOffset64, RawBytes(manifests), 1)

----------------------------------------------------------------------------
(* gopkg.in/yaml.v2 as cleanupManifests uses it: a stream is split into    *)
(* documents at "---" lines, comments and blank lines carry nothing, a     *)
(* document is a mapping of keys to values, and Marshal writes the keys of *)
(* a mapping in sorted order, one per line.                                *)

\* the keys in the order yaml.Marshal writes them
KeyOrder == <<"image: ", "kind: ", "other: ", "spec: ", "status: ">>
KeySet == {KeyOrder[i] : i \in 1..Len(KeyOrder)}

\* values that are YAML strings (the others are mappings, numbers, null)
StringWords == {"CustomResourceDefinition", "Service", "Deployment", "ConfigMap", "text"}
\* values that are YAML mappings
MapWords == {"{versions: [schema]}", "{versions: []}", "{}", "{ready}",
             "{group: g, versions: [schema]}", "{group: g, versions: []}"}

\* spec["versions"] = []interface{}{} on each of these mappings
SetVersions(word) ==
  CASE word = "{versions: [schema]}" -> "{versions: []}"
    [] word = "{versions: []}" -> "{versions: []}"
    [] word = "{}" -> "{versions: []}"
    [] word = "{ready}" -> "{ready, versions: []}"
    [] word = "{group: g, versions: [schema]}" -> "{group: g, versions: []}"
    [] word = "{group: g, versions: []}" -> "{group: g, versions: []}"

IsBlankLine(l) == l = <<>>
IsCommentLine(l) == l # <<>> /\ Head(l) = Tok("#")
IsKeyLine(l) == l # <<>> /\ Head(l).t \in KeySet

\* the lines of a document that carry content
ContentLines(lines) == SelectSeq(lines, LAMBDA l : ~IsBlankLine(l) /\ ~IsCommentLine(l))

\* decoder.Decode(&manifest) of one document:
\*   err: the document is no mapping; isNil: the document is empty;
\*   m: the mapping, each key with the value of its last line
DecodeDoc(lines) ==
  LET cl == ContentLines(lines)
      keys == {cl[i][1].t : i \in 1..Len(cl)}
      last(k) == CHOOSE i \in 1..Len(cl) :
                   /\ cl[i][1].t = k
                   /\ \A j \in 1..Len(cl) : cl[j][1].t = k => j <= i
  IN IF cl = <<>> THEN [err |-> FALSE, isNil |-> TRUE, m |-> <<>>]
     ELSE IF \E i \in 1..Len(cl) : ~IsKeyLine(cl[i])
          THEN [err |-> TRUE, isNil |-> FALSE, m |-> <<>>]
     ELSE [err |-> FALSE, isNil |-> FALSE, m |-> [k \in keys |-> Tail(cl[last(k)])]]

\* the documents of a stream, in order
StreamDocs(b) == Split(Split(b, <<NL>>), << <<SEP>> >>)

\* yaml.Marshal of a mapping
RECURSIVE MarshalFrom(_, _)
MarshalFrom(m, i) ==
  IF i > Len(KeyOrder) THEN <<>>
  ELSE (IF KeyOrder[i] \in DOMAIN m
        THEN <<Tok(KeyOrder[i])>> \o m[KeyOrder[i]] \o <<NL>>
        ELSE <<>>) \o MarshalFrom(m, i + 1)

Marshal(m) == MarshalFrom(m, 1)

\* manifest["kind"].(string)
KindIsString(m) ==
  /\ "kind: " \in DOMAIN m
  /\ Len(m["kind: "]) = 1
  /\ m["kind: "][1].t \in StringWords

\* delete(m, k)
DeleteKey(m, k) == [x \in DOMAIN m \ {k} |-> m[x]]

\* case "CustomResourceDefinition": spec["versions"] = [] when spec is a
\* mapping, and delete(manifest, "status")
ScrubCRD(m) ==
  LET m1 == IF /\ "spec: " \in DOMAIN m
               /\ Len(m["spec: "]) = 1
               /\ m["spec: "][1].t \in MapWords
            THEN [m EXCEPT !["spec: "] = <<Tok(SetVersions(m["spec: "][1].t))>>]
            ELSE m
  IN DeleteKey(m1, "status: ")

\* as CleanupDocs, but the documents of every kind are retained
CleanupDocsKeepAll(docs, resources) ==
  LET ds == SelectSeq([i \in 1..Len(docs) |-> DecodeDoc(docs[i])], LAMBDA d : ~d.isNil)
  IN [err |-> "", resources |-> resources \o [i \in 1..Len(ds) |-> Marshal(ds[i].m)]]

\* as CleanupDocs, but no document makes the loop fail
CleanupDocsNoError(docs, resources) == [err |-> "", resources |-> resources]

\* the decode loop of cleanupManifests: the retained documents, marshalled,
\* or the first error
RECURSIVE CleanupDocs(_, _)
CleanupDocs(docs, resources) ==
  IF docs = <<>> THEN [err |-> "", resources |-> resources]
  ELSE LET d == DecodeDoc(Head(docs))
       IN IF d.err THEN [err |-> "failed to decode manifest", resources |-> <<>>]
          ELSE IF d.isNil THEN CleanupDocs(Tail(docs), resources)
          ELSE IF ~KindIsString(d.m)
               THEN [err |-> "kind is missing from manifest", resources |-> <<>>]
          ELSE LET kind == d.m["kind: "][1].t
               IN IF kind = "CustomResourceDefinition"
                  THEN CleanupDocs(Tail(docs), Append(resources, Marshal(ScrubCRD(d.m))))
                  ELSE IF kind \in {"Service", "Deployment"}
                  THEN CleanupDocs(Tail(docs), Append(resources, Marshal(d.m)))
                  ELSE CleanupDocs(Tail(docs), resources)

\* the first trim loop of cleanupManifests
RECURSIVE TrimLoop1(_)
TrimLoop1(b) ==
  IF HasPrefix(b, <<NL>>) \/ HasSuffix(b, <<NL, SEP>>)
  THEN TrimLoop1(TrimSuffix(TrimPrefix(b, <<NL>>), <<NL, SEP>>))
  ELSE b

\* the second trim loop of cleanupManifests
RECURSIVE TrimLoop2(_)
TrimLoop2(b) ==
  IF HasSuffix(b, <<NL>>) \/ HasPrefix(b, <<NL, SEP>>)
  THEN TrimLoop2(TrimPrefix(TrimSuffix(b, <<NL>>), <<NL, SEP>>))
  ELSE b

\* cleanupManifests(manifests, version): [err, out]
cleanupManifests(manifests, version) ==
  LET r == CleanupDocs(StreamDocs(manifests), <<>>)
      joined == Join(r.resources, <<NL, SEP, NL>>)
      replaced == ReplaceAll(joined, version, dummyVersion)
  IN IF r.err # "" THEN [err |-> r.err, out |-> <<>>]
     ELSE [err |-> "", out |-> TrimLoop2(TrimLoop1(replaced))]

----------------------------------------------------------------------------
(* Inventory: LatestVersion, Versions (version -> hash), Manifests         *)
(* (hash -> manifest).  A Go map is a function on the set of its keys.     *)

EmptyMap == <<>>

\* m[k] = v
MapPut(m, k, v) == [x \in DOMAIN m \cup {k} |-> IF x = k THEN v ELSE m[x]]

\* Inventory.reset
reset == [LatestVersion |-> Ver(0, 0, 0), Versions |-> EmptyMap, Manifests |-> EmptyMap]

\* a file of the file system: absent, or its bytes
NoFile == [exists |-> FALSE, bytes |-> <<>>]
FileOf(b) == [exists |-> TRUE, bytes |-> b]

\* the loop over the entries of one version list of Inventory.read
RECURSIVE ReadVersions(_, _, _)
ReadVersions(versionsSplit, hash, inv) ==
  IF versionsSplit = <<>> THEN [err |-> "", inv |-> inv]
  ELSE LET version == Canonical(BytesStr(TrimSpace(Head(versionsSplit))))
       IN IF version = EmptyStr
          THEN [err |-> "failed to parse version from manifest file", inv |-> inv]
          ELSE ReadVersions(Tail(versionsSplit), hash,
                            [inv EXCEPT !.Versions = MapPut(@, version, hash)])

\* the loop over the blocks of Inventory.read
RECURSIVE ReadBlocks(_, _)
ReadBlocks(manifests, inv) ==
  IF manifests = <<>> THEN [err |-> "", inv |-> inv]
  ELSE IF Len(Head(manifests)) = 0 THEN ReadBlocks(Tail(manifests), inv)
  ELSE LET parts == SplitN2(Head(manifests), <<NL>>)
       IN IF Len(parts) # 2
          THEN [err |-> "failed to read versions from manifest file", inv |-> inv]
          ELSE LET versions == TrimSpace(parts[1])
                   c == cleanupManifests(parts[2], dummyVersion)
                   hash == manifestHash(c.out)
                   rv == ReadVersions(Split(versions, <<COMMA>>), hash, inv)
               IN IF c.err # "" THEN [err |-> "failed to cleanup manifest", inv |-> inv]
                  ELSE IF rv.err # "" THEN rv
                  ELSE ReadBlocks(Tail(manifests),
                         IF DOMAIN rv.inv.Versions # {}
                         THEN [rv.inv EXCEPT !.Manifests = MapPut(@, hash, c.out)]
                         ELSE rv.inv)

\* Inventory.read(manifestsPath): the error ("" for nil) and the record the
\* receiver holds when read returns
read(f) ==
  IF ~f.exists THEN [err |-> "failed to read inventory file", inv |-> reset]
  ELSE LET fileSplit == SplitN2(f.bytes, <<NL>>)
       IN IF Len(fileSplit) # 2
          THEN [err |-> "failed read latest version from first line", inv |-> reset]
          ELSE LET latestVersion ==
                     Canonical(BytesStr(TrimPrefix(TrimSpace(fileSplit[1]), <<HdrLatest>>)))
               IN IF latestVersion = EmptyStr
                  THEN [err |-> "failed to parse latest version from first line", inv |-> reset]
                  ELSE ReadBlocks(Split(fileSplit[2], <<SEP, NL, HdrVersions>>),
                                  [reset EXCEPT !.LatestVersion = latestVersion])

\* as SortVersions, but the versions stay in the order they were found in
SortVersionsNot(s) == s

\* slices.SortFunc(versions, semver.Compare): an insertion sort at these
\* lengths; x moves left while it compares below its predecessor
RECURSIVE InsertVersion(_, _)
InsertVersion(sorted, x) ==
  IF sorted = <<>> THEN <<x>>
  ELSE IF Compare(x, sorted[Len(sorted)]) < 0
       THEN Append(InsertVersion(SubSeq(sorted, 1, Len(sorted) - 1), x), sorted[Len(sorted)])
       ELSE Append(sorted, x)

RECURSIVE SortVersions(_)
SortVersions(s) ==
  IF s = <<>> THEN <<>>
  ELSE InsertVersion(SortVersions(SubSeq(s, 1, Len(s) - 1)), s[Len(s)])

\* the comparison of two blocks in Inventory.write
CompareBlocks(a, b) == Compare(a.versions[1], b.versions[1])

\* as SortBlocks, but the blocks stay in the order they were collected in
SortBlocksNot(s) == s

\* slices.SortFunc(manifests, ...) of Inventory.write
RECURSIVE InsertBlock(_, _)
InsertBlock(sorted, x) ==
  IF sorted = <<>> THEN <<x>>
  ELSE IF CompareBlocks(x, sorted[Len(sorted)]) < 0
       THEN Append(InsertBlock(SubSeq(sorted, 1, Len(sorted) - 1), x), sorted[Len(sorted)])
       ELSE Append(sorted, x)

RECURSIVE SortBlocks(_)
SortBlocks(s) ==
  IF s = <<>> THEN <<>>
  ELSE InsertBlock(SortBlocks(SubSeq(s, 1, Len(s) - 1)), s[Len(s)])

\* as CollectBlocks, but one block is collected for every version
CollectBlocksPerVersion(inv, mOrder, vOrder) ==
  [i \in 1..Len(vOrder) |-> [versions |-> <<vOrder[i]>>,
                             manifest |-> inv.Manifests[inv.Versions[vOrder[i]]]]]

\* the blocks that Inventory.write collects, for an iteration order mOrder of
\* inv.Manifests and vOrder of inv.Versions
RECURSIVE CollectBlocks(_, _, _)
CollectBlocks(inv, mOrder, vOrder) ==
  IF mOrder = <<>> THEN <<>>
  ELSE LET manifestHash_ == Head(mOrder)
           versions == SelectSeq(vOrder, LAMBDA v : inv.Versions[v] = manifestHash_)
           rest == CollectBlocks(inv, Tail(mOrder), vOrder)
       IN IF Len(versions) = 0 THEN rest
          ELSE <<[versions |-> SortVersions(versions),
                  manifest |-> inv.Manifests[manifestHash_]]>> \o rest

\* strings.Join(versions, ", ")
JoinVersions(versions) ==
  Join([i \in 1..Len(versions) |-> StrBytes(versions[i])], <<COMMA, SP>>)

RECURSIVE EmitBlocks(_)
EmitBlocks(blocks) ==
  IF blocks = <<>> THEN <<>>
  ELSE <<HdrVersions>> \o JoinVersions(Head(blocks).versions) \o <<NL>>
       \o Head(blocks).manifest \o <<NL, SEP, NL>> \o EmitBlocks(Tail(blocks))

\* the bytes Inventory.write hands to os.WriteFile
WriteBytes(inv, mOrder, vOrder) ==
  LET manifests == SortBlocks(CollectBlocks(inv, mOrder, vOrder))
  IN <<HdrLatest>> \o StrBytes(inv.LatestVersion) \o <<NL, SEP, NL>> \o EmitBlocks(manifests)

\* the orders in which a range over a map with key set S may run
Orders(S) == {s \in [1..Cardinality(S) -> S] : \A i, j \in 1..Cardinality(S) : i # j => s[i] # s[j]}

----------------------------------------------------------------------------
(* The environment: the published tags, the manifest each release serves,  *)
(* and the inventory files the program may find.                           *)

v090 == Ver(0, 9, 0)
v100 == Ver(1, 0, 0)
v110 == Ver(1, 1, 0)

\* the names of the tags of the remote repository: releases, one below the
\* floor, and one tag that is no semantic version
Tags == {StrBytes(v090), StrBytes(v100), StrBytes(v110), <<Tok("nightly")>>}

\* the tag names in the order of --sort=version:refname
TagOrder ==
  <<StrBytes(v090), StrBytes(v100), StrBytes(ShortVer(1, 1)), StrBytes(v110),
    StrBytes(Ver(1, 2, 0)), <<Tok("nightly")>>,
    <<Tok("old/"), Tok("refs/tags/"), StrBytes(v100)[1]>> >>

\* the output of git ls-remote --tags --sort=version:refname --refs for a
\* repository with these tags: one line "<sha>\trefs/tags/<name>" per tag
LsRemote(tags) ==
  LET names == SelectSeq(TagOrder, LAMBDA t : t \in tags)
  IN IF names = <<>> THEN <<>>
     ELSE Join([i \in 1..Len(names) |-> <<Tok("<sha>\t"), Tok("refs/tags/")>> \o names[i]],
               <<NL>>) \o <<NL>>

\* what git ls-remote prints for the repository of the compile runs
RemoteTags == LsRemote(Tags)

\* a release manifest stamped with version v: a comment, a Deployment
RawDeployment(v) ==
  <<Tok("#"), VerTok(v), NL,
    Tok("kind: "), Tok("Deployment"), NL,
    Tok("image: "), VerTok(v), NL>>

\* a release manifest with a CRD (schema, status), a ConfigMap and a Service
RawCRD(v) ==
  <<SEP, NL,
    Tok("kind: "), Tok("CustomResourceDefinition"), NL,
    Tok("status: "), Tok("{ready}"), NL,
    Tok("spec: "), Tok("{versions: [schema]}"), NL,
    SEP, NL,
    Tok("kind: "), Tok("ConfigMap"), NL,
    SEP, NL,
    Tok("kind: "), Tok("Service"), NL>>

\* a release manifest with a document that has no kind
RawNoKind(v) == <<Tok("image: "), VerTok(v), NL>>

\* what the release server serves per version: two releases with the same
\* manifest but for the version; two that differ; one whose manifest is broken
Contents ==
  { [v \in {v100, v110} |-> RawDeployment(v)],
    [v \in {v100, v110} |-> IF v = v110 THEN RawCRD(v) ELSE RawDeployment(v)],
    [v \in {v100, v110} |-> IF v = v110 THEN RawNoKind(v) ELSE RawDeployment(v)] }

\* the bodies of the non-success responses of the release server
ErrorBodies == {<<Tok("Not Found")>>, <<>>}

\* the description of an inventory file: the text of its header version and
\* its blocks, each a list of version texts and a manifest
Desc(latest, blocks) == [latest |-> latest, blocks |-> blocks]
Block(versions, manifest) == [versions |-> versions, manifest |-> manifest]

RECURSIVE RenderBlocks(_)
RenderBlocks(blocks) ==
  IF blocks = <<>> THEN <<>>
  ELSE <<HdrVersions>>
       \o Join([i \in 1..Len(Head(blocks).versions) |-> StrBytes(Head(blocks).versions[i])],
               <<COMMA, SP>>)
       \o <<NL>> \o Head(blocks).manifest \o <<NL, SEP, NL>>
       \o RenderBlocks(Tail(blocks))

\* the file of a description, in the format of the inventory file
Render(d) == <<HdrLatest>> \o StrBytes(d.latest) \o <<NL, SEP, NL>> \o RenderBlocks(d.blocks)

\* normalized manifests, as the files hold them
NormDeployment == cleanupManifests(RawDeployment(v100), v100).out
NormCRD == cleanupManifests(RawCRD(v110), v110).out

\* the inventory files a compile run may start from: none; a catalog of one
\* release; a catalog whose second block lists an entry that is no version;
\* a catalog whose second block holds a manifest that is no YAML mapping
GoodDesc == Desc(v100, <<Block(<<v100>>, NormDeployment)>>)
BadEntryDesc == Desc(v110, <<Block(<<v100>>, NormDeployment),
                             Block(<<v110, BadVer>>, NormCRD)>>)
BadManifestDesc == Desc(v110, <<Block(<<v100>>, NormDeployment),
                                Block(<<v110>>, <<Tok("Not Found")>>)>>)
InitFiles == {NoFile, FileOf(Render(GoodDesc)), FileOf(Render(BadEntryDesc)),
              FileOf(Render(BadManifestDesc))}

\* the <max_version> arguments of the runs
MaxArgs == {v090, v110, ShortVer(1, 1)}

----------------------------------------------------------------------------
(* The compile run: main and the units of the errgroup *)

VARIABLES
  file,        \* the inventory file at manifestsPath
  content,     \* the manifest the release server serves for each version
  runs,        \* the number of runs started
  pc,          \* where main stands: "idle" (no process), "list", "fetch", "merge"
  maxVersion,  \* os.Args[2] of the run
  force,       \* the force argument of the run
  inv,         \* main's Inventory
  readErr,     \* the error inv.read returned in this run ("" for nil)
  units,       \* the goroutines of the group, by version
  results,     \* the results channel
  gerr,        \* the error the group holds (kind "" for none)
  cancelled,   \* gctx is cancelled
  exit,        \* how the last run ended: exit code and message
  fileBefore,  \* history: the file when the run started
  prev,        \* history: the arguments and the end of the run before
  net,         \* history: the network calls of the run
  firstFail,   \* history: the error of the unit that was the first to fail
  call         \* a function called on its own: its name, arguments and return value

vars == <<file, content, runs, pc, maxVersion, force, inv, readErr, units, results,
          gerr, cancelled, exit, fileBefore, prev, net, firstFail, call>>

\* no function is called on its own
NoCall == [fn |-> "", in |-> <<>>, out |-> <<>>, done |-> FALSE]

NoErr == [kind |-> "", version |-> EmptyStr]
Err(kind, version) == [kind |-> kind, version |-> version]

NoExit == [code |-> -1, msg |-> "", err |-> NoErr]
NoNet == [listed |-> FALSE, fetched |-> {}]

\* a goroutine of the group that has not yet called downloadManifests
NewUnit == [st |-> "download", body |-> <<>>, httpOK |-> TRUE, err |-> NoErr]

Init ==
  /\ file \in InitFiles
  /\ content \in Contents
  /\ runs = 0
  /\ pc = "idle"
  /\ maxVersion = EmptyStr
  /\ force = FALSE
  /\ inv = reset
  /\ readErr = ""
  /\ units = EmptyMap
  /\ results = <<>>
  /\ gerr = NoErr
  /\ cancelled = FALSE
  /\ exit = NoExit
  /\ fileBefore = NoFile
  /\ prev = [maxVersion |-> EmptyStr, force |-> FALSE, code |-> -1]
  /\ net = NoNet
  /\ firstFail = NoErr
  /\ call = NoCall

\* as LoadInventory, but for the reset after a failed read
LoadInventoryNoReset(f) == read(f).inv

\* main, lines 63-69: read the inventory, and reset it when read fails
LoadInventory(f) ==
  LET r == read(f)
  IN IF r.err # "" THEN reset ELSE r.inv

\* main, lines 45-75: the process starts with <max_version> and <force>,
\* reads the inventory and exits when the version is already the latest
Start(max, f) ==
  /\ pc = "idle"
  /\ runs < MaxRuns
  /\ runs' = runs + 1
  /\ maxVersion' = max
  /\ force' = f
  /\ readErr' = read(file).err
  /\ inv' = LoadInventory(file)
  /\ fileBefore' = file
  /\ prev' = [maxVersion |-> maxVersion, force |-> force, code |-> exit.code]
  /\ units' = EmptyMap
  /\ results' = <<>>
  /\ gerr' = NoErr
  /\ cancelled' = FALSE
  /\ net' = NoNet
  /\ firstFail' = NoErr
  /\ IF inv'.LatestVersion = max /\ ~f
     THEN /\ pc' = "idle"
          /\ exit' = [code |-> 0, msg |-> "already the latest version", err |-> NoErr]
     ELSE /\ pc' = "list"
          /\ exit' = NoExit
  /\ UNCHANGED <<call, file, content>>

\* the loop of listVersions over the lines of the git output
RECURSIVE ListLines(_, _, _)
ListLines(lines, max, versions) ==
  IF lines = <<>> THEN [err |-> "", versions |-> versions]
  ELSE IF Len(Head(lines)) = 0 THEN ListLines(Tail(lines), max, versions)
  ELSE LET parts == Split(Head(lines), <<Tok("refs/tags/")>>)
       IN IF Len(parts) # 2
          THEN [err |-> "unexpected output from git command", versions |-> {}]
          ELSE LET version == Canonical(BytesStr(parts[2]))
               IN IF version = EmptyStr THEN ListLines(Tail(lines), max, versions)
                  ELSE IF Compare(version, minVersion) < 0
                       THEN ListLines(Tail(lines), max, versions)
                  ELSE IF Compare(version, max) > 0
                       THEN ListLines(Tail(lines), max, versions)
                  ELSE ListLines(Tail(lines), max, versions \cup {version})

\* listVersions, after git ls-remote has printed result: [err, versions]
listVersions(result, max) == ListLines(Split(result, <<NL>>), max, {})

\* as newVersions, but a version of the inventory is taken as well
newVersionsAll(remoteVersions, i, f) == remoteVersions

\* main, lines 84-90: the remote versions that are not in the inventory
newVersions(remoteVersions, i, f) ==
  {version \in remoteVersions : version \notin DOMAIN i.Versions \/ f}

\* main, lines 77-120: list the versions, start one goroutine per new version
ListVersions ==
  /\ pc = "list"
  /\ listVersions(RemoteTags, maxVersion).err = ""
  /\ pc' = "fetch"
  /\ units' = [version \in newVersions(listVersions(RemoteTags, maxVersion).versions,
                                        inv, force) |-> NewUnit]
  /\ net' = [net EXCEPT !.listed = TRUE]
  /\ UNCHANGED <<call, file, content, runs, maxVersion, force, inv, readErr, results, gerr,
                 cancelled, exit, fileBefore, prev, firstFail>>

\* main, lines 78-82: git ls-remote fails
ListFails ==
  /\ pc = "list"
  /\ pc' = "idle"
  /\ exit' = [code |-> 1, msg |-> "Error listing versions", err |-> NoErr]
  /\ net' = [net EXCEPT !.listed = TRUE]
  /\ UNCHANGED <<call, file, content, runs, maxVersion, force, inv, readErr, units, results,
                 gerr, cancelled, fileBefore, prev, firstFail>>

\* as GroupErr, but the last error is kept
GroupErrLast(held, e) == e

\* errgroup: the first error a goroutine returns is kept and cancels gctx
GroupErr(held, e) == IF held = NoErr THEN e ELSE held

\* a goroutine of the group returns the error e
UnitFails(version, e) ==
  /\ units' = [units EXCEPT ![version] = [@ EXCEPT !.st = "failed", !.err = e]]
  /\ gerr' = GroupErr(gerr, e)
  /\ cancelled' = TRUE
  /\ firstFail' = IF \A v \in DOMAIN units : units[v].st # "failed" THEN e ELSE firstFail

\* downloadManifests returns an error: the transport fails, or gctx is cancelled
DownloadFails(version) ==
  /\ pc = "fetch"
  /\ version \in DOMAIN units
  /\ units[version].st = "download"
  /\ \E kind \in {"transport"} \cup (IF cancelled THEN {"canceled"} ELSE {}) :
       UnitFails(version, Err(kind, version))
  /\ net' = [net EXCEPT !.fetched = @ \cup {version}]
  /\ UNCHANGED <<call, file, content, runs, pc, maxVersion, force, inv, readErr, results, exit,
                 fileBefore, prev>>

\* downloadManifests, lines 356-367: the body of whatever response came
\* is returned, with no look at the status code
downloadManifests(st, ok, body) == [st EXCEPT !.st = "cleanup", !.body = body, !.httpOK = ok]

\* the server answers the request: with the manifest of the version, or
\* with a non-success status and an error body
DownloadReturns(version) ==
  /\ pc = "fetch"
  /\ version \in DOMAIN units
  /\ units[version].st = "download"
  /\ \E ok \in BOOLEAN :
       \E body \in (IF ok THEN {content[version]} ELSE ErrorBodies) :
         units' = [units EXCEPT ![version] = downloadManifests(@, ok, body)]
  /\ net' = [net EXCEPT !.fetched = @ \cup {version}]
  /\ UNCHANGED <<call, file, content, runs, pc, maxVersion, force, inv, readErr, results, gerr,
                 cancelled, exit, fileBefore, prev, firstFail>>

\* as Capacity, but for a channel without a buffer
CapacityUnbuffered == Len(<<>>)

\* main, line 101: the capacity of the results channel is len(newVersions)
Capacity == Cardinality(DOMAIN units)

\* the goroutine, lines 107-118: clean up the manifests, send the result;
\* the send waits while the channel is full
Cleanup(version) ==
  /\ pc = "fetch"
  /\ version \in DOMAIN units
  /\ units[version].st = "cleanup"
  /\ LET c == cleanupManifests(units[version].body, version)
     IN IF c.err # ""
        THEN /\ UnitFails(version, Err("cleanup", version))
             /\ UNCHANGED results
        ELSE /\ Len(results) < Capacity
             /\ units' = [units EXCEPT ![version] = [@ EXCEPT !.st = "done"]]
             /\ results' = Append(results, [version |-> version, manifest |-> c.out])
             /\ UNCHANGED <<gerr, cancelled, firstFail>>
  /\ UNCHANGED <<call, file, content, runs, pc, maxVersion, force, inv, readErr, exit,
                 fileBefore, prev, net>>

AllReturned == \A version \in DOMAIN units : units[version].st \in {"done", "failed"}

\* as Wait, but the error of the group is not looked at
WaitLosesError ==
  /\ pc = "fetch"
  /\ AllReturned
  /\ pc' = "merge"
  /\ UNCHANGED <<call, file, content, runs, maxVersion, force, inv, readErr, units, results,
                 gerr, cancelled, exit, fileBefore, prev, net, firstFail>>

\* main, lines 122-127: group.Wait returns; exit on its error, else close
\* the channel
Wait ==
  /\ pc = "fetch"
  /\ AllReturned
  /\ IF gerr # NoErr
     THEN /\ pc' = "idle"
          /\ exit' = [code |-> 1, msg |-> "Error downloading manifests", err |-> gerr]
     ELSE /\ pc' = "merge"
          /\ exit' = exit
  /\ UNCHANGED <<call, file, content, runs, maxVersion, force, inv, readErr, units, results,
                 gerr, cancelled, fileBefore, prev, net, firstFail>>

\* as MergeResult, but the manifest is not stored
MergeResultNoManifest(i, result) ==
  [i EXCEPT !.Versions = MapPut(@, result.version, manifestHash(result.manifest))]

\* main, lines 129-138: one result of the channel goes into the inventory
MergeResult(i, result) ==
  LET hash == manifestHash(result.manifest)
  IN [i EXCEPT !.Versions = MapPut(@, result.version, hash),
               !.Manifests = MapPut(@, hash, result.manifest)]

Merge ==
  /\ pc = "merge"
  /\ results # <<>>
  /\ inv' = MergeResult(inv, Head(results))
  /\ results' = Tail(results)
  /\ UNCHANGED <<call, file, content, runs, pc, maxVersion, force, readErr, units, gerr,
                 cancelled, exit, fileBefore, prev, net, firstFail>>

\* main, lines 140-149: set the latest version and write the inventory file;
\* the maps are ranged over in any order
Write ==
  /\ pc = "merge"
  /\ results = <<>>
  /\ inv' = [inv EXCEPT !.LatestVersion = maxVersion]
  /\ \E mOrder \in Orders(DOMAIN inv.Manifests) :
       \E vOrder \in Orders(DOMAIN inv.Versions) :
         file' = FileOf(WriteBytes(inv', mOrder, vOrder))
  /\ pc' = "idle"
  /\ exit' = [code |-> 0, msg |-> "Updated inventory", err |-> NoErr]
  /\ UNCHANGED <<call, content, runs, maxVersion, force, readErr, units, results, gerr,
                 cancelled, fileBefore, prev, net, firstFail>>

\* main, lines 144-147: os.WriteFile fails, before or after it truncated the file
WriteFails ==
  /\ pc = "merge"
  /\ results = <<>>
  /\ inv' = [inv EXCEPT !.LatestVersion = maxVersion]
  /\ file' \in {file, FileOf(<<>>)}
  /\ pc' = "idle"
  /\ exit' = [code |-> 1, msg |-> "Error writing inventory", err |-> NoErr]
  /\ UNCHANGED <<call, content, runs, maxVersion, force, readErr, units, results, gerr,
                 cancelled, fileBefore, prev, net, firstFail>>

Next ==
  \/ \E max \in MaxArgs : \E f \in BOOLEAN : Start(max, f)
  \/ ListVersions
  \/ ListFails
  \/ \E version \in DOMAIN units : DownloadFails(version)
  \/ \E version \in DOMAIN units : DownloadReturns(version)
  \/ \E version \in DOMAIN units : Cleanup(version)
  \/ Wait
  \/ Merge
  \/ Write
  \/ WriteFails

Spec == Init /\ [][Next]_vars

----------------------------------------------------------------------------
(* Properties of the compile run *)

AnyUnitFailed == \E version \in DOMAIN units : units[version].st = "failed"
Updated == pc = "idle" /\ exit.msg = "Updated inventory"

\* C1: if a unit of the work set fails, the run never reaches the merge or
\* the write, it ends with exit code 1, and the inventory file is what it
\* was when the run started, whatever the other units did
PartialFailureAtomicity ==
  AnyUnitFailed => /\ pc \in {"fetch", "idle"}
                   /\ file = fileBefore
                   /\ (pc = "idle" => exit.code = 1)

\* a run has ended in which one unit failed after another had sent its result
PartialFailureSeen ==
  /\ pc = "idle"
  /\ exit.code = 1
  /\ fileBefore.exists
  /\ \E v, w \in DOMAIN units : units[v].st = "failed" /\ units[w].st = "done"

\* the versions the run has to fetch, from its inputs
WorkSet ==
  newVersions(listVersions(RemoteTags, maxVersion).versions, LoadInventory(fileBefore), force)

\* the normalized manifest of a cataloged version: of the body fetched in
\* this run, or else the one read from the existing file
NormOf(version) ==
  IF version \in DOMAIN units
  THEN cleanupManifests(units[version].body, version).out
  ELSE LET old == LoadInventory(fileBefore)
       IN old.Manifests[old.Versions[version]]

Cataloged == DOMAIN units \cup DOMAIN LoadInventory(fileBefore).Versions

\* the version lists of the CHK_VERSIONS blocks of a file, each as a set
BlockLists(bytes) ==
  LET rest == SplitN2(bytes, <<NL>>)[2]
      blocks == Split(rest, <<SEP, NL, HdrVersions>>)
      entries(blk) == Split(SplitN2(blk, <<NL>>)[1], <<COMMA>>)
  IN { {BytesStr(TrimSpace(entries(blocks[i])[j])) : j \in 1..Len(entries(blocks[i]))} :
         i \in {k \in 1..Len(blocks) : Len(blocks[k]) > 0} }

\* C2: in the file a successful compile has written, two cataloged versions
\* stand in the same CHK_VERSIONS block exactly if their normalized
\* manifests are the same bytes
FingerprintGrouping ==
  Updated =>
    \A v, w \in Cataloged :
      (\E B \in BlockLists(file.bytes) : v \in B /\ w \in B) <=> (NormOf(v) = NormOf(w))

\* a compile has written a file in which a fetched version joins the block
\* of a carried-over one, or two fetched versions stand in different blocks
GroupingSeen ==
  /\ Updated
  /\ \/ \E v \in DOMAIN units : \E w \in Cataloged \ DOMAIN units : NormOf(v) = NormOf(w)
     \/ \E v, w \in DOMAIN units : NormOf(v) # NormOf(w)

\* C3: a compile with the same maxVersion as the successful compile before
\* it, both without force, takes the short-circuit: no listing, no fetch, no
\* write, the file unchanged
NoOpCompile ==
  (runs >= 2 /\ prev.code = 0 /\ ~prev.force /\ ~force /\ prev.maxVersion = maxVersion)
    => /\ pc = "idle"
       /\ exit.msg = "already the latest version"
       /\ ~net.listed
       /\ net.fetched = {}
       /\ file = fileBefore

\* C5: reading the file a compile has just written succeeds and yields the
\* record that was written
RecordRoundTrip ==
  Updated => read(file).err = "" /\ read(file).inv = inv

\* the record a run has merged out of the bodies it fetched, in one fixed order
RECURSIVE MergeAll(_, _)
MergeAll(i, order) ==
  IF order = <<>> THEN i
  ELSE MergeAll(MergeResult(i, [version |-> Head(order),
                                manifest |-> NormOf(Head(order))]), Tail(order))

ExpectedInv ==
  [MergeAll(LoadInventory(fileBefore), CHOOSE o \in Orders(WorkSet) : TRUE)
     EXCEPT !.LatestVersion = maxVersion]

ExpectedBytes ==
  WriteBytes(ExpectedInv,
             CHOOSE o \in Orders(DOMAIN ExpectedInv.Manifests) : TRUE,
             CHOOSE o \in Orders(DOMAIN ExpectedInv.Versions) : TRUE)

\* C6: the bytes a successful compile has written are those that the
\* existing file, the listed tags, the fetched bodies, maxVersion and force
\* determine, whatever the order in which the units sent their results and
\* the maps were ranged over; and writing the record again, in any order of
\* the maps, gives the same bytes
StableOutput ==
  Updated =>
    /\ file.bytes = ExpectedBytes
    /\ \A mOrder \in Orders(DOMAIN inv.Manifests) :
         \A vOrder \in Orders(DOMAIN inv.Versions) :
           WriteBytes(inv, mOrder, vOrder) = file.bytes

\* a compile has written two blocks after two units sent their results
StableOutputSeen ==
  /\ Updated
  /\ Cardinality(DOMAIN units) >= 2
  /\ Cardinality(BlockLists(file.bytes)) >= 2

\* C7: every fingerprint that a version maps to has its manifest, in every
\* state of the inventory: after reset, after read and after each merge
ReferentialInvariant ==
  \A version \in DOMAIN inv.Versions : inv.Versions[version] \in DOMAIN inv.Manifests

\* results have been merged into a record that read had filled
MergedOverRead ==
  /\ pc = "merge"
  /\ results = <<>>
  /\ readErr = ""
  /\ DOMAIN units # {}
  /\ DOMAIN inv.Versions \ DOMAIN units # {}

\* C8: a failing unit cancels gctx, the error the group holds is the error
\* of the unit that failed first, which is no cancellation, and the run
\* that ends on it has written nothing
FirstErrorWins ==
  /\ (AnyUnitFailed => cancelled /\ gerr = firstFail /\ gerr.kind # "canceled")
  /\ (exit.msg = "Error downloading manifests" => exit.err = firstFail /\ file = fileBefore)

\* a run has ended on the error of one unit while another was cancelled
CancelledAfterFirstError ==
  /\ exit.msg = "Error downloading manifests"
  /\ \E v \in DOMAIN units : units[v].err.kind = "canceled"

\* C9: when read fails, wherever it fails, main goes on with the empty
\* record, and the process does not exit with an error at that point
FailedReadStartsEmpty ==
  [][(pc = "idle" /\ runs' = runs + 1 /\ readErr' # "") => (inv' = reset /\ exit'.code # 1)]_vars

\* read failed after it had taken entries from an earlier block, and the run
\* went on to list the versions
FailedReadAfterEntries ==
  /\ pc = "list"
  /\ readErr # ""
  /\ DOMAIN read(fileBefore).inv.Versions # {}

\* C10: a unit whose response was no success response fails; its body is
\* not handed to cleanupManifests and not sent as a result
NonSuccessIsFailure ==
  \A version \in DOMAIN units : ~units[version].httpOK => units[version].st = "failed"

----------------------------------------------------------------------------
(* The codec alone: an inventory file is read, and the record read is      *)
(* written back.                                                           *)

\* the blocks of the inventory files of the codec runs: in the form write
\* gives them, with a version list out of order, with a version in short
\* form, and with a manifest as the release served it
CodecBlocks ==
  { Block(<<v100>>, NormDeployment),
    Block(<<v100, v110>>, NormDeployment),
    Block(<<v110, v100>>, NormDeployment),
    Block(<<v110>>, NormCRD),
    Block(<<v090>>, NormCRD),
    Block(<<ShortVer(1, 1)>>, NormCRD),
    Block(<<v110>>, RawCRD(dummyVersion)) }

CodecDescs ==
  { Desc(l, bs) : l \in {v110, ShortVer(1, 1)},
                  bs \in {<<b>> : b \in CodecBlocks}
                         \cup {<<b1, b2>> : b1 \in CodecBlocks, b2 \in CodecBlocks} }

InitCodec ==
  /\ file \in {FileOf(Render(d)) : d \in CodecDescs}
  /\ fileBefore = file
  /\ content \in {[v \in {v100, v110} |-> RawDeployment(v)]}
  /\ runs = 0
  /\ pc = "codec"
  /\ maxVersion = EmptyStr
  /\ force = FALSE
  /\ inv = reset
  /\ readErr = ""
  /\ units = EmptyMap
  /\ results = <<>>
  /\ gerr = NoErr
  /\ cancelled = FALSE
  /\ exit = NoExit
  /\ prev = [maxVersion |-> EmptyStr, force |-> FALSE, code |-> -1]
  /\ net = NoNet
  /\ firstFail = NoErr
  /\ call = NoCall

\* inv.read(manifestsPath)
CodecRead ==
  /\ pc = "codec"
  /\ pc' = "codecRead"
  /\ inv' = read(file).inv
  /\ readErr' = read(file).err
  /\ UNCHANGED <<call, file, content, runs, maxVersion, force, units, results, gerr, cancelled,
                 exit, fileBefore, prev, net, firstFail>>

\* inv.write(manifestsPath), the maps ranged over in any order
CodecWrite ==
  /\ pc = "codecRead"
  /\ readErr = ""
  /\ pc' = "codecWritten"
  /\ \E mOrder \in Orders(DOMAIN inv.Manifests) :
       \E vOrder \in Orders(DOMAIN inv.Versions) :
         file' = FileOf(WriteBytes(inv, mOrder, vOrder))
  /\ UNCHANGED <<call, content, runs, maxVersion, force, inv, readErr, units, results, gerr,
                 cancelled, exit, fileBefore, prev, net, firstFail>>

NextCodec == CodecRead \/ CodecWrite

SpecCodec == InitCodec /\ [][NextCodec]_vars

\* the file of the description read succeeds on, and write gives it back
RoundTrips ==
  /\ (pc = "codecRead" => readErr = "")
  /\ (pc = "codecWritten" => file = fileBefore)

\* C4 as claimed: every file that has a header line and then CHK_VERSIONS
\* blocks, each with a non-empty list of valid versions and a manifest, is
\* read with success, and writing what was read gives the file back
FileRoundTripWellFormed ==
  (\E d \in CodecDescs :
     /\ fileBefore = FileOf(Render(d))
     /\ \A i \in 1..Len(d.blocks) :
          /\ Len(d.blocks[i].versions) > 0
          /\ \A j \in 1..Len(d.blocks[i].versions) : IsValid(d.blocks[i].versions[j]))
  => RoundTrips

\* a description in the form Inventory.write gives a file: the versions
\* canonical, each list strictly ascending, the blocks ascending by their
\* first version, no version in two blocks, the manifests normalized and
\* different from block to block
WrittenForm(d) ==
  /\ d.latest.f = "full"
  /\ Len(d.blocks) >= 1
  /\ \A i \in 1..Len(d.blocks) :
       LET b == d.blocks[i]
       IN /\ Len(b.versions) > 0
          /\ \A j \in 1..Len(b.versions) : b.versions[j].f = "full"
          /\ \A j \in 1..(Len(b.versions) - 1) : Compare(b.versions[j], b.versions[j + 1]) < 0
          /\ cleanupManifests(b.manifest, dummyVersion) = [err |-> "", out |-> b.manifest]
  /\ \A i, k \in 1..Len(d.blocks) :
       i < k => /\ Compare(d.blocks[i].versions[1], d.blocks[k].versions[1]) < 0
                /\ d.blocks[i].manifest # d.blocks[k].manifest
                /\ \A j \in 1..Len(d.blocks[i].versions) :
                     \A m \in 1..Len(d.blocks[k].versions) :
                       d.blocks[i].versions[j] # d.blocks[k].versions[m]

\* C4, amended: every file in the form Inventory.write gives a file, with
\* one block or more, is read with success, and writing what was read, in
\* whatever order the maps are ranged over, gives the file back
FileRoundTrip ==
  (\E d \in CodecDescs : fileBefore = FileOf(Render(d)) /\ WrittenForm(d)) => RoundTrips

\* a file of two blocks in that form, one of them with two versions, has
\* been read and written back
FileRoundTripSeen ==
  /\ pc = "codecWritten"
  /\ \E d \in CodecDescs :
       /\ fileBefore = FileOf(Render(d))
       /\ WrittenForm(d)
       /\ Len(d.blocks) = 2

----------------------------------------------------------------------------
(* The merge and the write of main, from every record a read can have left *)
(* and every batch of results the units can have sent under force, when    *)
(* the releases serve other manifests than the inventory file holds.       *)

NormService == cleanupManifests(<<Tok("kind: "), Tok("Service"), NL>>, v100).out

\* the inventory files the forced runs start from
StoreDescs ==
  { Desc(v110, <<Block(<<v100, v110>>, NormDeployment)>>),
    Desc(v110, <<Block(<<v100>>, NormDeployment), Block(<<v110>>, NormCRD)>>),
    Desc(v100, <<Block(<<v100>>, NormCRD)>>) }

\* the results in the channel when group.Wait has returned: one per listed
\* version, in the order the units sent them
StoreResults ==
  LET M == {NormDeployment, NormCRD, NormService}
      R(version) == {[version |-> version, manifest |-> m] : m \in M}
  IN {<<>>} \cup {<<r>> : r \in R(v100)}
     \cup {<<r1, r2>> : r1 \in R(v100), r2 \in R(v110)}
     \cup {<<r2, r1>> : r1 \in R(v100), r2 \in R(v110)}

InitStore ==
  /\ file \in {FileOf(Render(d)) : d \in StoreDescs}
  /\ fileBefore = file
  /\ content \in {[v \in {v100, v110} |-> RawDeployment(v)]}
  /\ runs = 1
  /\ pc = "merge"
  /\ results \in StoreResults
  /\ maxVersion = (IF Len(results) = 2 THEN v110 ELSE v100)
  /\ force = TRUE
  /\ inv = LoadInventory(file)
  /\ readErr = ""
  /\ units = [version \in {results[i].version : i \in 1..Len(results)} |->
                [NewUnit EXCEPT !.st = "done"]]
  /\ gerr = NoErr
  /\ cancelled = FALSE
  /\ exit = NoExit
  /\ prev = [maxVersion |-> EmptyStr, force |-> FALSE, code |-> -1]
  /\ net = [listed |-> TRUE, fetched |-> DOMAIN units]
  /\ firstFail = NoErr
  /\ call = NoCall

NextStore == Merge \/ Write \/ WriteFails

SpecStore == InitStore /\ [][NextStore]_vars

\* the CHK_VERSIONS blocks of a file in the order they stand in it, each
\* with the version texts of its list and the bytes of its manifest
FileBlocks(bytes) ==
  LET rest == SplitN2(bytes, <<NL>>)[2]
      pieces == SelectSeq(Split(rest, <<SEP, NL, HdrVersions>>), LAMBDA p : Len(p) > 0)
      entries(p) == Split(SplitN2(p, <<NL>>)[1], <<COMMA>>)
      body(p) == TrimSuffix(TrimSuffix(SplitN2(p, <<NL>>)[2], <<SEP, NL>>), <<NL>>)
  IN [k \in 1..Len(pieces) |->
        [versions |-> [j \in 1..Len(entries(pieces[k])) |->
                         BytesStr(TrimSpace(entries(pieces[k])[j]))],
         manifest |-> body(pieces[k])]]

\* C11: the file written holds a block only for a fingerprint some version
\* maps to; every block lists a version, every cataloged version stands in
\* one block and once in it, under the manifest of its fingerprint, and
\* there are as many blocks as fingerprints that versions map to
NoGarbageWritten ==
  Updated =>
    LET B == FileBlocks(file.bytes)
        places(v) == {p \in {<<i, j>> : i \in 1..Len(B), j \in 1..2} :
                        p[2] <= Len(B[p[1]].versions) /\ B[p[1]].versions[p[2]] = v}
    IN /\ \A i \in 1..Len(B) :
            /\ Len(B[i].versions) > 0
            /\ \A j \in 1..Len(B[i].versions) :
                 /\ B[i].versions[j] \in DOMAIN inv.Versions
                 /\ B[i].manifest = inv.Manifests[inv.Versions[B[i].versions[j]]]
       /\ \A v \in DOMAIN inv.Versions : Cardinality(places(v)) = 1
       /\ Len(B) = Cardinality({inv.Versions[v] : v \in DOMAIN inv.Versions})

\* a record was written in which a forced run had moved the version of the
\* file to the fingerprint of another version, leaving the old manifest
\* with no version
GarbageNotWritten ==
  /\ Updated
  /\ \E h \in DOMAIN inv.Manifests : \A v \in DOMAIN inv.Versions : inv.Versions[v] # h
  /\ \E v, w \in DOMAIN inv.Versions : v # w /\ inv.Versions[v] = inv.Versions[w]

----------------------------------------------------------------------------
(* Further properties of the compile run *)

\* the version text in the header line of an inventory file
HeaderVersion(bytes) == BytesStr(TrimPrefix(SplitN2(bytes, <<NL>>)[1], <<HdrLatest>>))

\* C12: LatestVersion is a canonical semantic version in every state of the
\* record and in the header of the file a compile has written, and after a
\* successful compile it is maxVersion
LatestVersionCanonical ==
  /\ inv.LatestVersion.f = "full"
  /\ Updated => /\ inv.LatestVersion = maxVersion
                /\ HeaderVersion(file.bytes).f = "full"

----------------------------------------------------------------------------
(* One compile run, from a wider choice of inventory files *)

\* the inventory files the single runs start from: those of the repeated
\* runs, catalogs of two versions in one block and in two, a catalog whose
\* only version is the highest release, and one with a version that is no
\* longer published
RunFiles ==
  InitFiles
  \cup {FileOf(Render(d)) : d \in StoreDescs}
  \cup {FileOf(Render(Desc(v110, <<Block(<<v110>>, NormCRD)>>))),
        FileOf(Render(Desc(Ver(1, 2, 0), <<Block(<<v100, Ver(1, 2, 0)>>, NormDeployment)>>)))}

\* the <max_version> arguments of the single runs
RunArgs == MaxArgs \cup {v100}

InitRun ==
  /\ file \in RunFiles
  /\ content \in Contents
  /\ runs = 0
  /\ pc = "idle"
  /\ maxVersion = EmptyStr
  /\ force = FALSE
  /\ inv = reset
  /\ readErr = ""
  /\ units = EmptyMap
  /\ results = <<>>
  /\ gerr = NoErr
  /\ cancelled = FALSE
  /\ exit = NoExit
  /\ fileBefore = NoFile
  /\ prev = [maxVersion |-> EmptyStr, force |-> FALSE, code |-> -1]
  /\ net = NoNet
  /\ firstFail = NoErr
  /\ call = NoCall

\* main is started once
StartOnce(max, f) == runs = 0 /\ Start(max, f)

NextRun ==
  \/ \E max \in RunArgs : \E f \in BOOLEAN : StartOnce(max, f)
  \/ ListVersions
  \/ ListFails
  \/ \E version \in DOMAIN units : DownloadFails(version)
  \/ \E version \in DOMAIN units : DownloadReturns(version)
  \/ \E version \in DOMAIN units : Cleanup(version)
  \/ Wait
  \/ Merge
  \/ Write
  \/ WriteFails

SpecRun == InitRun /\ [][NextRun]_vars

\* Merge can take a step: it always shortens the channel
MergeEnabled == pc = "merge" /\ results # <<>>

\* the goroutine of the version can take its step after the download: it
\* returns the error of cleanupManifests, or sends when the channel has room
CleanupEnabled(version) ==
  /\ pc = "fetch"
  /\ version \in DOMAIN units
  /\ units[version].st = "cleanup"
  /\ \/ cleanupManifests(units[version].body, version).err # ""
     \/ Len(results) < Capacity

\* main can call write, which returns: the file and pc change
WriteEnabled == pc = "merge" /\ results = <<>>

\* the run under the scheduling of the Go runtime and a release server
\* that answers: a goroutine that can take a step takes it, every request
\* returns, and main goes on when it can. The weak fairness of Cleanup,
\* Merge and Write is written out, with the condition under which each
\* can step in the place of ENABLED
Fairness ==
  /\ \A version \in {v100, v110} :
       /\ WF_vars(DownloadFails(version) \/ DownloadReturns(version))
       /\ ([]<>(~CleanupEnabled(version)) \/ []<><<Cleanup(version)>>_vars)
  /\ WF_vars(Wait)
  /\ ([]<>(~MergeEnabled) \/ []<><<Merge>>_vars)
  /\ ([]<>(~WriteEnabled) \/ []<><<Write \/ WriteFails>>_vars)

SpecRunFair == SpecRun /\ Fairness

\* the record as main read it when the run started
AsRead == LoadInventory(fileBefore)

\* C23: while a unit of the group has not returned the record is as main
\* read it; a record that differs from it has been merged into after every
\* unit returned; and with a failed unit the record stays as read
MergeOrdering ==
  runs > 0 =>
    /\ (pc \in {"list", "fetch"} \/ ~AllReturned \/ AnyUnitFailed) => inv = AsRead
    /\ pc = "merge" => AllReturned /\ ~AnyUnitFailed

\* after two units returned, one of their results is merged into the
\* record and the other is still in the channel
MergeAfterAllUnits ==
  /\ pc = "merge"
  /\ Cardinality(DOMAIN units) >= 2
  /\ Len(results) = 1
  /\ inv # AsRead

\* the fingerprint of the result the merge loop takes next
NextHash == manifestHash(Head(results).manifest)

Listed == listVersions(RemoteTags, maxVersion).versions

\* the versions the run is to fetch: the listed ones that the record as
\* read does not hold, or all the listed ones under force
ToFetch == IF force THEN Listed ELSE Listed \ DOMAIN AsRead.Versions

\* C25: once the run has listed the versions, its units are those of the
\* versions to fetch, one per version; no other version is requested from
\* the release server, and when the group has been waited for without an
\* error every version to fetch was requested
WorkSetExact ==
  (runs > 0 /\ (pc \in {"fetch", "merge"} \/ DOMAIN units # {})) =>
    LET work == ToFetch
    IN /\ DOMAIN units = work
       /\ net.fetched \subseteq work
       /\ (pc = "merge" => net.fetched = work)

\* a run without force has fetched the listed versions that the record did
\* not hold, and no listed version that it held
WorkSetSeen ==
  /\ pc = "merge"
  /\ ~force
  /\ ToFetch # {}
  /\ Listed \cap DOMAIN AsRead.Versions # {}
  /\ net.fetched = ToFetch

\* the versions of a list stand in strictly ascending order
Ascending(versions) ==
  \A j \in 1..(Len(versions) - 1) : Compare(versions[j], versions[j + 1]) < 0

\* write has written the file: at the end of a compile, or after a read
Written == Updated \/ pc = "codecWritten"

\* C26: in the file write has written the versions of each
\* CHK_VERSIONS block stand in strictly ascending order, and the blocks in
\* strictly ascending order of their first, lowest, version
WriteOrdering ==
  Written =>
    LET B == FileBlocks(file.bytes)
    IN /\ \A i \in 1..Len(B) : Ascending(B[i].versions)
       /\ Ascending([i \in 1..Len(B) |-> B[i].versions[1]])

\* write has written a file of several blocks, one of them with several
\* versions, from a record whose file held them in another order
WriteOrderingSeen ==
  /\ Written
  /\ LET B == FileBlocks(file.bytes)
     IN /\ Len(B) >= 2
        /\ \E i \in 1..Len(B) : Len(B[i].versions) >= 2
        /\ file # fileBefore

\* the block of a written file that lists the version, or none
BlocksOf(B, version) ==
  {i \in 1..Len(B) : \E j \in 1..Len(B[i].versions) : B[i].versions[j] = version}

\* C27: after a compile that read the file and wrote it, every version
\* of the record as read is a key of the record and stands in a block of
\* the file written; without force it has the fingerprint it had, and the
\* manifest it had in the record and in its block
NothingDropped ==
  (Updated /\ readErr = "") =>
    LET old == AsRead
        B == FileBlocks(file.bytes)
    IN \A version \in DOMAIN old.Versions :
         /\ version \in DOMAIN inv.Versions
         /\ BlocksOf(B, version) # {}
         /\ ~force =>
              /\ inv.Versions[version] = old.Versions[version]
              /\ inv.Manifests[inv.Versions[version]] = old.Manifests[old.Versions[version]]
              /\ \A i \in BlocksOf(B, version) :
                   B[i].manifest = old.Manifests[old.Versions[version]]

\* a compile without force has merged a fetched version and written the
\* file, and the record as read held a version above maxVersion, which
\* listVersions does not return
KeptAboveMax ==
  /\ Updated
  /\ readErr = ""
  /\ ~force
  /\ DOMAIN units # {}
  /\ \E version \in DOMAIN AsRead.Versions :
       Compare(version, maxVersion) > 0 /\ version \notin Listed

\* the versions of the results in the channel
Sent == {results[i].version : i \in 1..Len(results)}

\* no send on the results channel has to wait: a result is in the channel
\* for each unit that is done and for no other, once each, the channel
\* has room for the result of every unit that has yet to send
NoSendWaits ==
  pc = "fetch" =>
    /\ Sent = {version \in DOMAIN units : units[version].st = "done"}
    /\ Len(results) = Cardinality(Sent)
    /\ \A version \in DOMAIN units :
         units[version].st \in {"download", "cleanup"} => Len(results) < Capacity

\* main has gone through the merge loop and called write: every version of
\* the work set is in the record with the fingerprint of its result
MergedAll ==
  /\ pc = "idle"
  /\ exit.msg \in {"Updated inventory", "Error writing inventory"}
  /\ results = <<>>
  /\ \A version \in DOMAIN units :
       /\ version \in DOMAIN inv.Versions
       /\ inv.Versions[version] = manifestHash(NormOf(version))

\* C28: no unit ever waits to send its result; group.Wait returns, with
\* or without failed units; and a run none of whose units fails goes
\* through the merge loop with one result per version of the work set and
\* calls write
FanInCannotBlock ==
  /\ []NoSendWaits
  /\ (pc = "fetch") ~> (pc # "fetch")
  /\ (pc = "fetch") ~> (pc = "idle" /\ (AnyUnitFailed \/ MergedAll))

\* two units have sent their results and the channel is full
ChannelFull ==
  /\ pc = "fetch"
  /\ Capacity = 2
  /\ Len(results) = Capacity

----------------------------------------------------------------------------
(* Functions called on their own *)

\* no process runs: the variables of main at rest
NoProcess ==
  /\ file = NoFile
  /\ fileBefore = NoFile
  /\ content \in {[v \in {v100, v110} |-> RawDeployment(v)]}
  /\ runs = 0
  /\ pc = "idle"
  /\ maxVersion = EmptyStr
  /\ force = FALSE
  /\ inv = reset
  /\ readErr = ""
  /\ units = EmptyMap
  /\ results = <<>>
  /\ gerr = NoErr
  /\ cancelled = FALSE
  /\ exit = NoExit
  /\ prev = [maxVersion |-> EmptyStr, force |-> FALSE, code |-> -1]
  /\ net = NoNet
  /\ firstFail = NoErr

mainVars == <<file, content, runs, pc, maxVersion, force, inv, readErr, units, results,
              gerr, cancelled, exit, fileBefore, prev, net, firstFail>>

\* a call of fn with the arguments in, not yet made
Call(fn, in) == [fn |-> fn, in |-> in, out |-> <<>>, done |-> FALSE]

\* the tag names a remote repository may hold
TagUniverse == {TagOrder[i] : i \in 1..Len(TagOrder)}

\* the <max_version> arguments listVersions is called with
ListMaxArgs == {v100, v110, ShortVer(1, 1), BadVer}

InitList ==
  /\ NoProcess
  /\ call \in {Call("listVersions", [tags |-> T, max |-> m]) :
                 T \in SUBSET TagUniverse, m \in ListMaxArgs}

\* listVersions(ctx, maxVersion), git ls-remote having succeeded
CallListVersions ==
  /\ call.fn = "listVersions"
  /\ ~call.done
  /\ call' = [call EXCEPT !.out = listVersions(LsRemote(call.in.tags), call.in.max),
                          !.done = TRUE]
  /\ UNCHANGED mainVars

NextList == CallListVersions

SpecList == InitList /\ [][NextList]_vars

\* C13: listVersions returns, without an error, the canonical forms of the
\* tags that are valid semantic versions, not below v1.0.0 and not above
\* maxVersion; the other tags are skipped
ListVersionsExact ==
  (call.fn = "listVersions" /\ call.done) =>
    /\ call.out.err = ""
    /\ call.out.versions =
         {Canonical(BytesStr(t)) :
            t \in {u \in call.in.tags : /\ IsValid(BytesStr(u))
                                        /\ Compare(BytesStr(u), minVersion) >= 0
                                        /\ Compare(BytesStr(u), call.in.max) <= 0}}

----------------------------------------------------------------------------
(* cleanupManifests called on its own, on the manifest of a release given  *)
(* as a template and the version it is stamped with.                       *)

MaxDocs == 3

\* the place of the release version in a template
Stamp == Tok("<V>")

\* the template stamped with version v
Stamped(T, v) == [i \in 1..Len(T) |-> IF T[i] = Stamp THEN VerTok(v) ELSE T[i]]

\* the documents of the templates: resources of the kinds kept and of one
\* dropped, with the version as stamp and as literal text, a CRD whose spec
\* is no mapping, documents without a string-valued kind, an empty document
TemplateDocs ==
  { <<Tok("kind: "), Tok("Deployment"), NL, Tok("image: "), Stamp, NL>>,
    <<Tok("kind: "), Tok("Deployment"), NL, Tok("image: "), VerTok(v100), NL,
      Tok("other: "), Stamp, NL>>,
    <<Tok("status: "), Tok("{ready}"), NL, Tok("kind: "), Tok("CustomResourceDefinition"), NL,
      Tok("spec: "), Tok("{group: g, versions: [schema]}"), NL>>,
    <<Tok("kind: "), Tok("CustomResourceDefinition"), NL, Tok("spec: "), Tok("text"), NL>>,
    <<Tok("status: "), Tok("{ready}"), NL, Tok("kind: "), Tok("Service"), NL,
      Tok("other: "), Tok("text"), NL>>,
    <<Tok("kind: "), Tok("ConfigMap"), NL, Tok("other: "), Stamp, NL>>,
    <<Tok("image: "), Stamp, NL>>,
    <<Tok("kind: "), Tok("{}"), NL>>,
    <<Tok("Not Found"), NL>>,
    <<Tok("#"), Stamp, NL>> }

\* the templates: up to MaxDocs documents, a "---" line between them
Templates ==
  {Join(ds, <<SEP, NL>>) : ds \in UNION {[1..n -> TemplateDocs] : n \in 0..MaxDocs}}

\* the pairs of versions a template is stamped with: two releases, one
\* release twice, and the sentinel version with a release
StampVersions == {<<v100, v110>>, <<v110, v100>>, <<v100, v100>>, <<dummyVersion, v100>>}

InitNormalize ==
  /\ NoProcess
  /\ call \in {Call("cleanupManifests", [T |-> T, v1 |-> vs[1], v2 |-> vs[2]]) :
                 T \in Templates, vs \in StampVersions}

\* cleanupManifests(manifests, version) on the template stamped with v1 and
\* on the template stamped with v2
CallCleanupManifests ==
  /\ call.fn = "cleanupManifests"
  /\ ~call.done
  /\ call' = [call EXCEPT
                !.out = [a |-> cleanupManifests(Stamped(call.in.T, call.in.v1), call.in.v1),
                         b |-> cleanupManifests(Stamped(call.in.T, call.in.v2), call.in.v2)],
                !.done = TRUE]
  /\ UNCHANGED mainVars

NextNormalize == CallCleanupManifests

SpecNormalize == InitNormalize /\ [][NextNormalize]_vars

Normalized == call.fn = "cleanupManifests" /\ call.done

\* the version text v occurs in the bytes b
Occurs(v, b) == \E i \in 1..Len(b) : b[i] = VerTok(v)

InputDocs ==
  LET docs == StreamDocs(Stamped(call.in.T, call.in.v1))
  IN [i \in 1..Len(docs) |-> DecodeDoc(docs[i])]

\* the document is not empty and has no kind that is a string
Kindless(d) == ~d.isNil /\ (d.err \/ ~KindIsString(d.m))

\* every document of the input that is not empty has a kind
AllHaveKind ==
  LET docs == InputDocs
  IN \A i \in 1..Len(docs) : ~Kindless(docs[i])

\* C15: when a document that is not empty has no string-valued kind,
\* cleanupManifests returns an error and no bytes, wherever the document
\* stands; when only empty documents lack a kind, it returns no error
KindMissingIsFatal ==
  Normalized =>
    IF ~AllHaveKind
    THEN call.out.a.err # "" /\ call.out.a.out = <<>>
    ELSE call.out.a.err = ""

\* a manifest whose second document has no kind, after a Deployment, was
\* rejected
KindMissingSeen ==
  /\ Normalized
  /\ call.out.a.err = "kind is missing from manifest"
  /\ LET docs == InputDocs
     IN /\ Len(docs) = 2
        /\ ~Kindless(docs[1]) /\ ~docs[1].isNil
        /\ Kindless(docs[2]) /\ ~docs[2].err

KeptKinds == {"CustomResourceDefinition", "Service", "Deployment"}

\* the input documents of the kinds that are kept, in their order
KeptDocs ==
  SelectSeq(InputDocs, LAMBDA d : ~d.isNil /\ ~d.err /\ KindIsString(d.m)
                                  /\ d.m["kind: "][1].t \in KeptKinds)

\* the documents of the output, decoded, in their order
OutputDocs ==
  LET docs == StreamDocs(call.out.a.out)
  IN SelectSeq([i \in 1..Len(docs) |-> DecodeDoc(docs[i])], LAMBDA d : ~d.isNil)

\* C16: when every document that is not empty has a kind, the output holds
\* the input documents of kind CustomResourceDefinition, Service and
\* Deployment, each once and in the order of the input, and nothing else;
\* a Service or Deployment differs from its input by the sentinel only
KindFilter ==
  (Normalized /\ AllHaveKind) =>
    LET kept == KeptDocs
        output == OutputDocs
    IN /\ call.out.a.err = ""
       /\ Len(output) = Len(kept)
       /\ \A i \in 1..Len(kept) :
            /\ ~output[i].err
            /\ output[i].m["kind: "] = kept[i].m["kind: "]
            /\ kept[i].m["kind: "][1].t # "CustomResourceDefinition" =>
                 output[i].m = [k \in DOMAIN kept[i].m |->
                                  ReplaceAll(kept[i].m[k], call.in.v1, dummyVersion)]

\* a manifest of a ConfigMap and two kept documents of different kinds was
\* normalized to the two kept documents
KindFilterSeen ==
  /\ Normalized
  /\ call.out.a.err = ""
  /\ LET docs == InputDocs
         kept == KeptDocs
     IN /\ Len(docs) = 3
        /\ \E i \in 1..3 : ~Kindless(docs[i]) /\ ~docs[i].isNil
                           /\ docs[i].m["kind: "][1].t = "ConfigMap"
        /\ Len(kept) = 2
        /\ Len(OutputDocs) = 2
        /\ kept[1].m["kind: "] # kept[2].m["kind: "]

\* C17: a CustomResourceDefinition in the output has spec.versions equal to
\* the empty sequence and no status, whatever the input document was; a
\* Service or a Deployment has the keys of its input document, status
\* included
CRDScrub ==
  (Normalized /\ AllHaveKind) =>
    LET kept == KeptDocs
        output == OutputDocs
    IN \A i \in 1..Len(output) :
         LET m == output[i].m
         IN IF m["kind: "][1].t = "CustomResourceDefinition"
            THEN /\ "status: " \notin DOMAIN m
                 /\ "spec: " \in DOMAIN m
                 /\ m["spec: "][1].t \in {SetVersions(w) : w \in MapWords}
            ELSE DOMAIN m = DOMAIN kept[i].m

----------------------------------------------------------------------------
(* The version detector, called as TestVersionChecker calls it: on the     *)
(* manifest of a block of the inventory file stamped with a version of the *)
(* block, and on other resource sets.                                      *)

\* loadManifests of the test: the blocks of the inventory file, each with
\* the version texts of its list and the bytes that follow the list
loadManifests(testManifestBytes) ==
  LET split == SplitN2(testManifestBytes, <<NL>>)
      pieces == IF Len(split) # 2 THEN <<>>
                ELSE SelectSeq(Split(split[2], <<SEP, NL, HdrVersions>>),
                               LAMBDA p : Len(p) > 0 /\ Len(SplitN2(p, <<NL>>)) = 2)
      versions(p) == Split(TrimSpace(SplitN2(p, <<NL>>)[1]), <<COMMA, SP>>)
  IN [k \in 1..Len(pieces) |->
        [versions |-> [j \in 1..Len(versions(pieces[k])) |-> BytesStr(versions(pieces[k])[j])],
         manifest |-> SplitN2(pieces[k], <<NL>>)[2]]]

\* the resource set TestVersionChecker builds for a version of a block
StampedManifest(item, version) == ReplaceAll(item.manifest, dummyVersion, version)

\* detect(query, inventory) of the version detector: normalize the query
\* with the fixed sentinel version, hash it, and look up the versions that
\* share the fingerprint
detect(query, inventory) ==
  LET c == cleanupManifests(query, dummyVersion)
      F == manifestHash(c.out)
      candidates == {v \in DOMAIN inventory.Versions : inventory.Versions[v] = F}
  IN IF c.err # ""
     THEN [err |-> "query cannot be parsed", Detected |-> EmptyStr, candidates |-> {}]
     ELSE [err |-> "",
           Detected |-> IF Cardinality(candidates) = 1
                        THEN CHOOSE v \in candidates : TRUE ELSE EmptyStr,
           candidates |-> candidates]

\* resource sets that are not built from a block of the inventory file
OtherQueries ==
  {NormDeployment, NormCRD, NormService, RawDeployment(v100), RawCRD(v110),
   RawNoKind(v100), <<Tok("Not Found")>>}

\* the calls of the detector on the inventory file of description d
DetectCalls(d) ==
  LET items == loadManifests(Render(d))
  IN {Call("Version", [catalog |-> Render(d), query |-> q, block |-> 0, version |-> EmptyStr]) :
        q \in OtherQueries}
     \cup
     {Call("Version", [catalog |-> Render(d),
                       query |-> StampedManifest(items[p[1]], items[p[1]].versions[p[2]]),
                       block |-> p[1],
                       version |-> items[p[1]].versions[p[2]]]) :
        p \in {q \in (1..Len(items)) \X (1..2) : q[2] <= Len(items[q[1]].versions)}}

InitDetect ==
  /\ NoProcess
  /\ call \in UNION {DetectCalls(d) : d \in CodecDescs}

\* checker.Version(ctx) against the inventory read from the file
CallVersion ==
  /\ call.fn = "Version"
  /\ ~call.done
  /\ call' = [call EXCEPT !.out = detect(call.in.query, LoadInventory(FileOf(call.in.catalog))),
                          !.done = TRUE]
  /\ UNCHANGED mainVars

NextDetect == CallVersion

SpecDetect == InitDetect /\ [][NextDetect]_vars

Detection == call.fn = "Version" /\ call.done

\* the inventory the detector was called with
Catalog == LoadInventory(FileOf(call.in.catalog))

\* the file of the inventory is in the form Inventory.write gives it
CatalogWritten == \E d \in CodecDescs : WrittenForm(d) /\ Render(d) = call.in.catalog

\* C18: when v is the only version of its fingerprint, the manifest of the
\* fingerprint with v in place of the sentinel is detected as v, with v the
\* only candidate
DetectionExact ==
  (/\ Detection
   /\ CatalogWritten
   /\ call.in.block # 0
   /\ \A w \in DOMAIN Catalog.Versions :
        Catalog.Versions[w] = Catalog.Versions[call.in.version] => w = call.in.version)
  => /\ call.out.err = ""
     /\ call.out.Detected = call.in.version
     /\ call.out.candidates = {call.in.version}

EveryVersionDetected ==
  (Detection /\ CatalogWritten /\ call.in.block # 0)
  => /\ call.out.err = ""
     /\ call.out.Detected = call.in.version

----------------------------------------------------------------------------
(* cmctl x uninstall: the command against a cluster and a Helm release.    *)
(* call.in holds the flags, the last release and the CRDs of the cluster   *)
(* when the command starts; call.out holds the state of the command.       *)

customResourceDefinitionKind == "CustomResourceDefinition"
customResourceDefinitionApiVersionV1 == "apiextensions.k8s.io/v1"
customResourceDefinitionApiVersionV1Beta1 == "apiextensions.k8s.io/v1beta1"

\* a document of a release manifest, as releaseutil.SimpleHead holds it;
\* keep: the annotation helm.sh/resource-policy is "keep"
Entry(kind, version, name, keep) ==
  [Kind |-> kind, Version |-> version, Name |-> name, keep |-> keep]

CRDNames == {"certificates.cert-manager.io", "issuers.cert-manager.io"}

ManifestCRD(name, keep) ==
  Entry(customResourceDefinitionKind, customResourceDefinitionApiVersionV1, name, keep)
ManifestDeployment == Entry("Deployment", "apps/v1", "cert-manager", FALSE)

\* the manifests of the releases: of cmctl x install, which holds no CRD;
\* of helm install with installCRDs=true; of a chart whose CRDs carry the
\* keep annotation, all of them or one
ReleaseManifests ==
  { <<ManifestDeployment>>,
    <<ManifestCRD("certificates.cert-manager.io", FALSE),
      ManifestCRD("issuers.cert-manager.io", FALSE), ManifestDeployment>>,
    <<ManifestCRD("certificates.cert-manager.io", TRUE), ManifestDeployment>>,
    <<ManifestCRD("certificates.cert-manager.io", TRUE),
      ManifestCRD("issuers.cert-manager.io", FALSE), ManifestDeployment>> }

NoRelease == [exists |-> FALSE, status |-> "", manifest |-> <<>>]

\* the last release of the name in the namespace, if there is one
Releases ==
  {NoRelease} \cup {[exists |-> TRUE, status |-> st, manifest |-> m] :
                      st \in {"deployed", "failed"}, m \in ReleaseManifests}

\* the CRDs of the cluster: absent, there, or there with the annotation
\* helm.sh/resource-policy=keep
Clusters == [CRDNames -> {"absent", "plain", "keep"}]

InitUninstall ==
  /\ NoProcess
  /\ \E dryRun \in BOOLEAN : \E release \in Releases : \E crds \in Clusters :
       call = [fn |-> "uninstall",
               in |-> [dryRun |-> dryRun, release |-> release, crds |-> crds],
               out |-> [pc |-> "run", crds |-> crds, todo |-> <<>>, helmRan |-> FALSE,
                        atHelm |-> crds, res |-> "nil", helmErr |-> "", err |-> "",
                        printed |-> "", ret |-> "", panic |-> FALSE],
               done |-> FALSE]

\* the entry of a manifest is a CRD, addCRDAnnotations lines 198-201
IsCRD(entry) ==
  /\ entry.Kind = customResourceDefinitionKind
  /\ entry.Version \in {customResourceDefinitionApiVersionV1,
                        customResourceDefinitionApiVersionV1Beta1}

\* addCRDAnnotations, lines 190-212: the names of the CRDs of the manifest
\* that have no keep annotation in the manifest
nonAnnotatedCRD(manifest) ==
  LET take == SelectSeq(manifest, LAMBDA entry : IsCRD(entry) /\ ~entry.keep /\ entry.Name # "")
  IN [i \in 1..Len(take) |-> take[i].Name]

\* run returns err before the Helm action
RunReturns(err) == [call.out EXCEPT !.pc = "report", !.err = err]

\* run, lines 131-149, and addCRDAnnotations, lines 160-212: the checks of
\* the cluster and of the release, and the list of the CRDs to annotate
UninstallRun ==
  /\ call.fn = "uninstall"
  /\ call.out.pc = "run"
  /\ \E reachable \in BOOLEAN :
       LET release == call.in.release
           todo == nonAnnotatedCRD(release.manifest)
       IN call' = [call EXCEPT !.out =
            IF call.in.dryRun THEN [@ EXCEPT !.pc = "helm"]
            ELSE IF ~reachable THEN RunReturns("cluster unreachable")
            ELSE IF ~release.exists THEN RunReturns("uninstall: release: not found")
            ELSE IF release.status # "deployed"
                 THEN RunReturns("release is in a non-deployed state")
            ELSE [@ EXCEPT !.todo = todo,
                           !.pc = IF todo = <<>> THEN "helm" ELSE "annotate"]]
  /\ UNCHANGED mainVars

\* addCRDAnnotations, lines 225-240: Get and Update of the next CRD
AnnotateCRD ==
  /\ call.fn = "uninstall"
  /\ call.out.pc = "annotate"
  /\ LET name == Head(call.out.todo)
     IN \E updated \in BOOLEAN :
          call' = [call EXCEPT !.out =
            IF call.out.crds[name] = "absent" THEN RunReturns("customresourcedefinition not found")
            ELSE IF ~updated THEN RunReturns("update failed")
            ELSE [@ EXCEPT !.crds[name] = "keep",
                           !.todo = Tail(@),
                           !.pc = IF Tail(call.out.todo) = <<>> THEN "helm" ELSE "annotate"]]
  /\ UNCHANGED mainVars

\* the Helm uninstall action keeps a resource with the keep annotation, in
\* the manifest of the release or on the object in the cluster
HelmKeeps(entry, crds) ==
  \/ entry.keep
  \/ IsCRD(entry) /\ entry.Name \in CRDNames /\ crds[entry.Name] = "keep"

\* the CRDs of the cluster after the Helm action has deleted the resources
\* of the manifest that it does not keep
HelmDeletes(manifest, crds) ==
  [name \in CRDNames |->
     IF \E i \in 1..Len(manifest) :
          IsCRD(manifest[i]) /\ manifest[i].Name = name /\ ~HelmKeeps(manifest[i], crds)
     THEN "absent" ELSE crds[name]]

\* run, lines 151-157: o.client.Run returns res and err, and run returns
\* res and no error unless err is ErrReleaseNotFound. The Helm action
\* uninstalls the release, finds none, or fails with another error, with
\* or without a response
HelmUninstall ==
  /\ call.fn = "uninstall"
  /\ call.out.pc = "helm"
  /\ LET release == call.in.release
     IN \E outcome \in {"uninstalled", "not found", "failed"} : \E res \in {"nil", "empty", "full"} :
          /\ outcome = "uninstalled" => release.exists /\ res = "full"
          /\ outcome = "not found" => ~release.exists /\ res # "full"
          /\ outcome = "failed" => res # "full"
          /\ call' = [call EXCEPT !.out =
               [@ EXCEPT !.helmRan = TRUE,
                         !.atHelm = call.out.crds,
                         !.crds = IF outcome = "uninstalled" /\ ~call.in.dryRun
                                  THEN HelmDeletes(release.manifest, @) ELSE @,
                         !.helmErr = IF outcome = "uninstalled" THEN "" ELSE outcome,
                         !.res = IF outcome = "not found" THEN "nil" ELSE res,
                         !.err = IF outcome = "not found"
                                 THEN "release cert-manager not found in namespace" ELSE "",
                         !.pc = "report"]]
  /\ UNCHANGED mainVars

\* NewCmd, lines 91-116: RunE after run has returned
UninstallReport ==
  /\ call.fn = "uninstall"
  /\ call.out.pc = "report"
  /\ call' = [call EXCEPT
       !.done = TRUE,
       !.out = IF call.out.err # "" THEN [@ EXCEPT !.pc = "done", !.ret = call.out.err]
               ELSE IF call.in.dryRun
                    THEN IF call.out.res = "nil" THEN [@ EXCEPT !.pc = "done", !.panic = TRUE]
                         ELSE IF call.out.res = "empty"
                              THEN [@ EXCEPT !.pc = "done", !.ret = "res.Release must not be nil"]
                         ELSE [@ EXCEPT !.pc = "done", !.printed = "manifest"]
               ELSE [@ EXCEPT !.pc = "done", !.printed = "release uninstalled"]]
  /\ UNCHANGED mainVars

NextUninstall == UninstallRun \/ AnnotateCRD \/ HelmUninstall \/ UninstallReport

SpecUninstall == InitUninstall /\ [][NextUninstall]_vars

\* C21: in an uninstall without dry-run, when the Helm action is about to
\* start every CRD of the release manifest carries the keep annotation on
\* the cluster; the Helm action has not run when a check or an annotation
\* failed; and every CRD that was on the cluster is there afterwards
UninstallKeepsCRDs ==
  (call.fn = "uninstall" /\ ~call.in.dryRun) =>
    LET manifest == call.in.release.manifest
    IN /\ call.out.pc = "helm" =>
            \A i \in 1..Len(manifest) :
              IsCRD(manifest[i]) => call.out.crds[manifest[i].Name] = "keep"
       /\ (call.out.pc \in {"run", "annotate"} \/ (call.out.helmErr = "" /\ call.out.err # ""))
            => ~call.out.helmRan
       /\ \A name \in CRDNames : call.in.crds[name] # "absent" => call.out.crds[name] # "absent"

\* C29: the command prints that the release is uninstalled, or returns no
\* error, only if the Helm action ran and returned no error; and it never
\* dereferences a nil response
UninstallReportsSuccess ==
  (call.fn = "uninstall" /\ call.done) =>
    /\ ~call.out.panic
    /\ (call.out.ret = "" => call.out.helmRan /\ call.out.helmErr = "")
    /\ (call.out.printed = "release uninstalled" => call.out.helmRan /\ call.out.helmErr = "")

----------------------------------------------------------------------------
(* cmctl x install: runInstall against a cluster, one command after the    *)
(* other. call.out holds the cluster (its CRDs, which have no namespace,   *)
(* and the namespaces with a release) and the state of the command.        *)

MaxInstalls == 2

Namespaces == {"cert-manager", "test"}

\* the CRDs that the chart renders with installCRDs=true; a chart without
\* CRDs renders none
Charts == {CRDNames, {}}

FoundExisting == "Found existing installed cert-manager CRDs! Cannot continue with installation."
FoundNoCRDs == "Found no CRDs in provided cert-manager chart."

InitInstall ==
  /\ NoProcess
  /\ call = [fn |-> "install",
             in |-> [chart |-> {}, namespace |-> "", DryRun |-> FALSE,
                     crds |-> {}, releases |-> {}],
             out |-> [pc |-> "idle", n |-> 0, crds |-> {}, releases |-> {},
                      created |-> {}, released |-> FALSE, checked |-> FALSE, ret |-> ""],
             done |-> FALSE]

\* runInstall returns err
InstallReturns(err) == [call.out EXCEPT !.pc = "idle", !.ret = err]

\* runInstall, lines 625-679: the chart is located, loaded and rendered on
\* the client with installCRDs=true; a dry-run returns the rendered release
InstallRender ==
  /\ call.fn = "install"
  /\ call.out.pc = "idle"
  /\ call.out.n < MaxInstalls
  /\ \E chart \in Charts : \E namespace \in Namespaces : \E DryRun, rendered \in BOOLEAN :
       call' = [call EXCEPT
         !.in = [chart |-> chart, namespace |-> namespace, DryRun |-> DryRun,
                 crds |-> call.out.crds, releases |-> call.out.releases],
         !.done = ~rendered \/ DryRun,
         !.out = [@ EXCEPT !.n = @ + 1, !.created = {}, !.released = FALSE, !.checked = FALSE,
                           !.ret = IF rendered THEN "" ELSE "chart not rendered",
                           !.pc = IF rendered /\ ~DryRun THEN "check" ELSE "idle"]]
  /\ UNCHANGED mainVars

\* helm.FilterCrdResources: the CRDs among the rendered resources
FilterCrdResources(chart) == chart \cap CRDNames

\* helm.FetchResources: the resources of the list that are in the cluster;
\* a CRD is found whatever namespace the earlier release was made in
FetchResources(crds, cluster) == crds \cap cluster

\* runInstall, line 711: len(originalCRDs) > 0
ExistingCRDsIgnored(originalCRDs) == FALSE

ExistingCRDs(originalCRDs) == Cardinality(originalCRDs) > 0

\* runInstall, lines 681-713: the CRDs of the rendered manifest are looked
\* up in the cluster
InstallCheck ==
  /\ call.fn = "install"
  /\ call.out.pc = "check"
  /\ \E fetched \in BOOLEAN :
       LET crds == FilterCrdResources(call.in.chart)
           originalCRDs == FetchResources(crds, call.out.crds)
       IN call' = [call EXCEPT
            !.done = crds = {} \/ ~fetched \/ ExistingCRDs(originalCRDs),
            !.out = IF crds = {} THEN InstallReturns(FoundNoCRDs)
                    ELSE IF ~fetched THEN InstallReturns("fetch failed")
                    ELSE IF ExistingCRDs(originalCRDs)
                         THEN [InstallReturns(FoundExisting) EXCEPT !.checked = TRUE]
                    ELSE [@ EXCEPT !.pc = "create", !.checked = TRUE]]
  /\ UNCHANGED mainVars

\* runInstall, lines 715-718, helm.CreateCRDs: the CRDs are created one by
\* one; the call fails at a CRD that cannot be created, and the CRDs created
\* before it stay
CreateCRDs ==
  /\ call.fn = "install"
  /\ call.out.pc = "create"
  /\ LET crds == FilterCrdResources(call.in.chart)
     IN \E made \in SUBSET (crds \ call.out.crds) :
          call' = [call EXCEPT
               !.done = made # crds,
               !.out = [@ EXCEPT !.crds = @ \cup made,
                                 !.created = made,
                                 !.ret = IF made = crds THEN "" ELSE "create failed",
                                 !.pc = IF made = crds THEN "release" ELSE "idle"]]
  /\ UNCHANGED mainVars

\* runInstall, lines 720-740: the chart is installed with installCRDs=false
InstallRelease ==
  /\ call.fn = "install"
  /\ call.out.pc = "release"
  /\ \E installed \in BOOLEAN :
       call' = [call EXCEPT
         !.done = TRUE,
         !.out = IF installed /\ call.in.namespace \notin call.out.releases
                 THEN [@ EXCEPT !.releases = @ \cup {call.in.namespace},
                                !.released = TRUE, !.pc = "idle"]
                 ELSE InstallReturns("install failed")]
  /\ UNCHANGED mainVars

NextInstall == InstallRender \/ InstallCheck \/ CreateCRDs \/ InstallRelease

SpecInstall == InitInstall /\ [][NextInstall]_vars

\* the cluster is as it was when the command started
ClusterUntouched ==
  /\ call.out.crds = call.in.crds
  /\ call.out.releases = call.in.releases
  /\ call.out.created = {}
  /\ ~call.out.released

\* C22: a command that finds a CRD of the chart in the cluster returns the
\* error "Found existing installed cert-manager CRDs! ..." and a command
\* started over such a cluster creates no CRD and no release; the release
\* is installed only with every CRD of the chart created by the command;
\* and a dry-run leaves the cluster as it was
InstallRefusesExistingCRDs ==
  (call.fn = "install" /\ call.out.n > 0) =>
    LET crds == FilterCrdResources(call.in.chart)
    IN /\ crds \cap call.in.crds # {} =>
            /\ ClusterUntouched
            /\ call.out.checked => call.out.pc = "idle" /\ call.out.ret = FoundExisting
       /\ call.out.ret = FoundExisting => crds \cap call.in.crds # {} /\ ClusterUntouched
       /\ (call.out.pc = "release" \/ call.out.released) =>
            /\ crds # {}
            /\ call.out.created = crds
            /\ crds \subseteq call.out.crds
       /\ call.out.pc \in {"check", "create"} => call.out.releases = call.in.releases
       /\ call.in.DryRun => ClusterUntouched /\ call.out.pc = "idle"

\* a command in the namespace cert-manager was refused over the CRDs of a
\* release in the namespace test
RefusedAfterOtherNamespace ==
  /\ call.fn = "install"
  /\ call.done
  /\ call.out.ret = FoundExisting
  /\ call.in.namespace = "cert-manager"
  /\ call.in.releases = {"test"}
  /\ call.in.crds = CRDNames

----------------------------------------------------------------------------
(* The benchmark: experiment.load. call.out holds the variable err of      *)
(* load, which the goroutines of the group share, the group and the        *)
(* position of load and of each goroutine.                                 *)

\* the Certificates of one load; the code creates ten
MaxCertificates == 3

Certificates == 1..MaxCertificates

InitLoad ==
  /\ NoProcess
  /\ call = [fn |-> "load",
             in |-> [certificates |-> MaxCertificates],
             out |-> [pc |-> "namespace", err |-> "", namespace |-> FALSE, issuer |-> FALSE,
                      unit |-> [i \in Certificates |-> "none"],
                      created |-> {}, failed |-> {},
                      groupErr |-> "", cancelled |-> FALSE, ret |-> ""],
             done |-> FALSE]

\* the error of a Create call that failed
CreateError(what) == "create failed: " \o what

CertificateName(i) == "app-" \o ToString(i - 1)

\* load, lines 194-197: the Namespace is created
CreateNamespace ==
  /\ call.fn = "load"
  /\ call.out.pc = "namespace"
  /\ \E ok \in BOOLEAN :
       call' = [call EXCEPT
         !.done = ~ok,
         !.out = IF ok THEN [@ EXCEPT !.namespace = TRUE, !.pc = "issuer"]
                 ELSE [@ EXCEPT !.err = CreateError("namespace"),
                                !.ret = CreateError("namespace"), !.pc = "done"]]
  /\ UNCHANGED mainVars

\* load, lines 214-217: the Issuer is created
CreateIssuer ==
  /\ call.fn = "load"
  /\ call.out.pc = "issuer"
  /\ \E ok \in BOOLEAN :
       call' = [call EXCEPT
         !.done = ~ok,
         !.out = IF ok THEN [@ EXCEPT !.issuer = TRUE, !.err = "", !.pc = "go"]
                 ELSE [@ EXCEPT !.err = CreateError("issuer"),
                                !.ret = CreateError("issuer"), !.pc = "done"]]
  /\ UNCHANGED mainVars

\* load, lines 221-249: g.Go starts the goroutine of the next Certificate;
\* the limit of the group is the number of goroutines, so Go never waits
Go(i) ==
  /\ call.fn = "load"
  /\ call.out.pc = "go"
  /\ call.out.unit[i] = "none"
  /\ \A j \in Certificates : j < i => call.out.unit[j] # "none"
  /\ call' = [call EXCEPT
       !.out = [@ EXCEPT !.unit[i] = "create",
                         !.pc = IF i = MaxCertificates THEN "wait" ELSE "go"]]
  /\ UNCHANGED mainVars

\* goroutine, line 246: Create returns and its error is assigned to err,
\* the variable of load that every goroutine writes; a call with the
\* cancelled context of the group fails
CreateCertificate(i) ==
  /\ call.fn = "load"
  /\ call.out.unit[i] = "create"
  /\ \E ok \in BOOLEAN :
       /\ call.out.cancelled => ~ok
       /\ call' = [call EXCEPT
            !.out = [@ EXCEPT !.unit[i] = "return",
                              !.err = IF ok THEN "" ELSE CreateError(CertificateName(i)),
                              !.created = IF ok THEN @ \cup {i} ELSE @,
                              !.failed = IF ok THEN @ ELSE @ \cup {i}]]
  /\ UNCHANGED mainVars

\* goroutine, line 247: return err reads the shared variable, and the
\* group keeps the first error that is not nil and cancels its context
ReturnErr(i) ==
  /\ call.fn = "load"
  /\ call.out.unit[i] = "return"
  /\ LET first == call.out.err # "" /\ call.out.groupErr = ""
     IN call' = [call EXCEPT
          !.out = [@ EXCEPT !.unit[i] = "done",
                            !.groupErr = IF first THEN call.out.err ELSE @,
                            !.cancelled = @ \/ first]]
  /\ UNCHANGED mainVars

\* load, line 250: g.Wait returns the error of the group when every
\* goroutine has returned
GroupWait ==
  /\ call.fn = "load"
  /\ call.out.pc = "wait"
  /\ \A i \in Certificates : call.out.unit[i] = "done"
  /\ call' = [call EXCEPT !.done = TRUE,
                          !.out = [@ EXCEPT !.pc = "done", !.ret = call.out.groupErr]]
  /\ UNCHANGED mainVars

NextLoad ==
  \/ CreateNamespace
  \/ CreateIssuer
  \/ \E i \in Certificates : Go(i)
  \/ \E i \in Certificates : CreateCertificate(i)
  \/ \E i \in Certificates : ReturnErr(i)
  \/ GroupWait

SpecLoad == InitLoad /\ [][NextLoad]_vars

\* C30: load returns an error when a Create of a Certificate failed, and
\* returns nil only with the Namespace, the Issuer and every Certificate
\* created
LoadReportsFailures ==
  (call.fn = "load" /\ call.done) =>
    /\ call.out.failed # {} => call.out.ret # ""
    /\ call.out.ret = "" =>
         /\ call.out.namespace
         /\ call.out.issuer
         /\ call.out.created = Certificates

====
